---- MODULE Spec2Model ----
(***************************************************************************)
(* Model of zc.zk.testing: the in-process ZooKeeper emulation (class       *)
(* ZooKeeper and class Node of src/src/zc/zk/testing.py).                  *)
(*                                                                         *)
(* A path string is modelled by the sequence of its '/'-separated pieces   *)
(* (Python's path.split('/')): "/a/b" is <<"", "a", "b">>, "/a/" is        *)
(* <<"", "a", "">>, "/" is <<"", "">> and "" is <<"">>.                    *)
(* A node is identified by its position: the sequence of child names that  *)
(* leads to it from the root (names may be the empty string, see create).  *)
(* Spec: every facade operation runs under self.lock, so it is one atomic  *)
(* step; watch callbacks are passive observers whose invocations are       *)
(* appended, in call order, to the trace of the operation.                 *)
(* SpecLock: the same operations statement by statement, called from two   *)
(* threads, with self.lock (a threading.RLock) taken and released and      *)
(* with watch callbacks that may call the facade again.                    *)
(***************************************************************************)
EXTENDS Integers, Sequences, FiniteSets, TLC

VARIABLES
    tree,       \* self.root: position -> node record
    sessions,   \* self.sessions: handle -> set of path strings
    nextw,      \* number of watch callbacks registered so far (history)
    calls,      \* registration id -> number of times it was invoked (history)
    ncalls,     \* number of facade calls so far that changed anything (history)
    last,       \* the facade call that has just completed and not yet been
                \* taken by its caller: arguments, outcome, invocations made
    lock,       \* self.lock: the owning thread and its acquisition count
    stack,      \* thread -> its facade calls in progress, innermost last
    issued      \* number of facade calls made by the threads (history)

vars == <<tree, sessions, nextw, calls, ncalls, last, lock, stack, issued>>

\* ---------------------------------------------------------------- bounds
MaxSessions == 2     \* live sessions at a time
MaxNodes == 2        \* nodes in the tree besides the root
MaxWatches == 2      \* watch registrations made in a behaviour
MaxAversion == 1     \* cap of a node's aversion counter
MaxCalls == 5        \* state-changing facade calls in a behaviour
MaxLockCalls == 3    \* facade calls of the threads in a behaviour of SpecLock
MaxNesting == 1      \* depth of facade calls made from inside watch callbacks

\* ------------------------------------------------------ program constants
EPHEMERAL == 1                 \* zookeeper.EPHEMERAL
OPEN_ACL_UNSAFE == "open"      \* zc.zk.OPEN_ACL_UNSAFE
CONNECTED_STATE == "connected" \* zookeeper.CONNECTED_STATE
SESSION_EVENT == "session"
CHILD_EVENT == "child"
CHANGED_EVENT == "changed"
DELETED_EVENT == "deleted"
NoAttr == "unset"              \* an attribute the object does not have

\* ------------------------------------------------------------ input sets
connection_string == "zookeeper.example.com:2181"
Addrs == {connection_string, "other.example.com:2181"}
CreateData == {"x"}            \* data given to create (a fresh Node() holds '')
SetData == {"y"}               \* data given to set
CreateAcls == {"acl1"}         \* acl given to create
SetAcls == {"acl2"}            \* acl given to set_acl
FlagValues == {0, EPHEMERAL}
\* "/", "/a", "/b" and "/a/b"
Paths == { <<"", "">>, <<"", "a">>, <<"", "b">>, <<"", "a", "b">> }

\* ------------------------------------------------------------- sequences
Front(s) == SubSeq(s, 1, Len(s) - 1)
Last(s) == s[Len(s)]
IsPrefix(p, q) == Len(p) <= Len(q) /\ SubSeq(q, 1, Len(p)) = p
Range(s) == { s[i] : i \in 1 .. Len(s) }
Restrict(f, S) == [x \in S |-> f[x]]

Perms(S) == { s \in [1 .. Cardinality(S) -> S] : Range(s) = S }

\* ------------------------------------------------------------------ Node
\* class Node: the class attributes are the defaults of a fresh instance.
NewNode(data) ==
    [data |-> data, acl |-> OPEN_ACL_UNSAFE, acls |-> NoAttr, aversion |-> 0,
     flags |-> 0, watchers |-> <<>>, child_watchers |-> <<>>]

Children(t, pos) == { q[Len(q)] : q \in { r \in DOMAIN t : Len(r) = Len(pos) + 1 /\ Front(r) = pos } }

\* One invocation w(h, type, state, path) of a watch callback.
Call(hw, type, state, path) ==
    [h |-> hw.h, w |-> hw.w, type |-> type, state |-> state, path |-> path]

Invoke(watchers, type, state, path) ==
    [i \in 1 .. Len(watchers) |-> Call(watchers[i], type, state, path)]

\* ---------------------------------------------------------------- facade
NoNode == <<"NoNode">>

RECURSIVE Walk(_, _, _)
Walk(t, pos, names) ==
    IF names = <<>> THEN pos
    ELSE IF Head(names) = "" THEN Walk(t, pos, Tail(names))
    ELSE IF (pos \o <<Head(names)>>) \in DOMAIN t
         THEN Walk(t, pos \o <<Head(names)>>, Tail(names))
         ELSE NoNode

\* ZooKeeper._traverse: the position of the node, or NoNode.
Traverse(t, path) == Walk(t, <<>>, Tail(path))

\* The outcome of a facade call: the tree and session table it leaves, the
\* callback invocations it made (in order), the exception it raised ("ok"
\* when none) and the tuple of values it returned (<<>> for None).
Outcome(t, s, fired, err, ret) ==
    [tree |-> t, sessions |-> s, fired |-> fired, err |-> err, ret |-> ret]

Raise(t, s, err) == Outcome(t, s, <<>>, err, <<>>)

\* Faulty variant: the handle is never looked up.
CheckHandleAny(s, handle) == TRUE

\* ZooKeeper._check_handle
CheckHandle(s, handle) == handle \in DOMAIN s

\* Node.children_changed / Node.changed: swap the tuple to (), call each.
ChildrenChangedTree(t, pos) == [t EXCEPT ![pos].child_watchers = <<>>]
ChildrenChangedCalls(t, pos, state, path) ==
    Invoke(t[pos].child_watchers, CHILD_EVENT, state, path)

\* Faulty variant: changed calls the child watchers as well.
ChangedCallsBoth(t, pos, state, path) ==
    Invoke(t[pos].watchers \o t[pos].child_watchers, CHANGED_EVENT, state, path)

ChangedTree(t, pos) == [t EXCEPT ![pos].watchers = <<>>]
ChangedCalls(t, pos, state, path) ==
    Invoke(t[pos].watchers, CHANGED_EVENT, state, path)

\* Node.deleted: the data watchers are swapped to () and called; the child
\* watchers are called too, but the second assignment is to self.watchers
\* again, so self.child_watchers keeps its entries.
DeletedNode(node) == [node EXCEPT !.watchers = <<>>]

\* Faulty variant: deleted notifies the data watchers only.
DeletedCallsDataOnly(node, state, path) ==
    Invoke(node.watchers, DELETED_EVENT, state, path)

DeletedCalls(node, state, path) ==
    Invoke(node.watchers, DELETED_EVENT, state, path)
    \o Invoke(node.child_watchers, DELETED_EVENT, state, path)

\* Faulty variant: clear_watchers does not recurse into the children.
ClearWatchersRootOnly(t, handle) ==
    [t EXCEPT ![<<>>].watchers = SelectSeq(@, LAMBDA hw : hw.h # handle),
              ![<<>>].child_watchers = SelectSeq(@, LAMBDA hw : hw.h # handle)]

\* Node.clear_watchers, applied to the root: recursion over all children.
KeepOthers(watchers, handle) == SelectSeq(watchers, LAMBDA hw : hw.h # handle)
ClearWatchers(t, handle) ==
    [pos \in DOMAIN t |->
        [t[pos] EXCEPT !.watchers = KeepOthers(t[pos].watchers, handle),
                       !.child_watchers = KeepOthers(t[pos].child_watchers, handle)]]

\* flags & zookeeper.EPHEMERAL
IsEphemeral(flags) == (flags \div EPHEMERAL) % 2 = 1

\* Faulty variant: the handle is the number of live sessions.
FreeHandleCount(s, handle) == Cardinality(DOMAIN s)

\* ZooKeeper.init: the lowest handle not in self.sessions.
RECURSIVE FreeHandle(_, _)
FreeHandle(s, handle) ==
    IF handle \in DOMAIN s THEN FreeHandle(s, handle + 1) ELSE handle

InitSessions(s) ==
    [h \in DOMAIN s \cup {FreeHandle(s, 0)} |->
        IF h = FreeHandle(s, 0) THEN {} ELSE s[h]]

InitReturn(handle) == <<>>     \* init has no return statement

ZkInit(t, s, addr, watch) ==
    LET handle == FreeHandle(s, 0) IN
    Outcome(t, InitSessions(s),
            IF watch THEN <<Call([h |-> handle, w |-> 0], SESSION_EVENT,
                                 CONNECTED_STATE, <<"">>)>>
            ELSE <<>>,
            "ok", InitReturn(handle))

\* assert_ only prints when the condition is false.
AssertPrints(cond) == ~cond

\* ZooKeeper.create
CreateNode(data, acl, flags) ==
    [NewNode(data) EXCEPT !.acls = acl, !.flags = flags]

\* Faulty variant: create does not look for an existing child of that name.
NameTakenNever(t, bpos, name) == FALSE

\* name in node.children
NameTaken(t, bpos, name) == name \in Children(t, bpos)

ZkCreate(t, s, handle, path, data, acl, flags) ==
    IF ~CheckHandle(s, handle) THEN Raise(t, s, "BadHandle")
    ELSE LET base == Front(path)
             name == Last(path)
             bpos == Traverse(t, base)
         IN  IF bpos = NoNode THEN Raise(t, s, "NoNode")
             ELSE IF NameTaken(t, bpos, name) THEN Raise(t, s, "NodeExists")
             ELSE LET npos == bpos \o <<name>>
                      t1 == [pos \in DOMAIN t \cup {npos} |->
                                IF pos = npos THEN CreateNode(data, acl, flags)
                                ELSE t[pos]]
                  IN  Outcome(ChildrenChangedTree(t1, bpos),
                              IF IsEphemeral(flags)
                              THEN [s EXCEPT ![handle] = @ \cup {path}]
                              ELSE s,
                              ChildrenChangedCalls(t1, bpos, CONNECTED_STATE, base),
                              "ok", <<path>>)

\* Faulty variant: the child stays among the children of its parent.
UnlinkNothing(t, target) == t

\* del bnode.children[name]: the child and everything below it leave the tree.
Unlink(t, target) ==
    Restrict(t, { pos \in DOMAIN t : ~IsPrefix(target, pos) })

\* ZooKeeper.delete
DeleteForget(s, handle, path) == [s EXCEPT ![handle] = @ \ {path}]

\* node.deleted(...) and then bnode.children_changed(...), as delete calls them.
DeleteCalls(node, t2, bpos, path, base) ==
    DeletedCalls(node, CONNECTED_STATE, path)
    \o ChildrenChangedCalls(t2, bpos, CONNECTED_STATE, base)

ZkDelete(t, s, handle, path) ==
    IF ~CheckHandle(s, handle) THEN Raise(t, s, "BadHandle")
    ELSE LET pos == Traverse(t, path)
             base == Front(path)
             name == Last(path)
             bpos == Traverse(t, base)
         IN  IF pos = NoNode THEN Raise(t, s, "NoNode")
             ELSE IF name \notin Children(t, bpos) THEN Raise(t, s, "KeyError")
             ELSE LET t1 == Unlink(t, bpos \o <<name>>)
                      \* node is still in the tree when it is bnode itself
                      t2 == IF pos \in DOMAIN t1
                            THEN [t1 EXCEPT ![pos] = DeletedNode(@)] ELSE t1
                  IN  Outcome(ChildrenChangedTree(t2, bpos),
                              DeleteForget(s, handle, path),
                              DeleteCalls(t[pos], t2, bpos, path, base),
                              "ok", <<>>)

\* ZooKeeper.close: order is the order in which list(self.sessions[handle])
\* yields the paths of the set.
RECURSIVE CloseLoop(_, _, _, _, _)
CloseLoop(t, s, fired, handle, order) ==
    IF order = <<>> THEN Outcome(t, s, fired, "ok", <<>>)
    ELSE LET r == ZkDelete(t, s, handle, Head(order))
         IN  IF r.err # "ok" THEN Outcome(t, s, fired, r.err, <<>>)
             ELSE CloseLoop(r.tree, r.sessions, fired \o r.fired, handle, Tail(order))

ZkClose(t, s, handle, order) ==
    IF ~CheckHandle(s, handle) THEN Raise(t, s, "BadHandle")
    ELSE LET r == CloseLoop(t, s, <<>>, handle, order)
         IN  IF r.err # "ok" THEN r
             ELSE Outcome(ClearWatchers(r.tree, handle),
                          Restrict(r.sessions, DOMAIN r.sessions \ {handle}),
                          r.fired, "ok", <<>>)

\* ZooKeeper.state
ZkState(t, s, handle) ==
    IF ~CheckHandle(s, handle) THEN Raise(t, s, "BadHandle")
    ELSE Outcome(t, s, <<>>, "ok", <<CONNECTED_STATE>>)

\* ZooKeeper.exists
ZkExists(t, s, handle, path) ==
    IF ~CheckHandle(s, handle) THEN Raise(t, s, "BadHandle")
    ELSE Outcome(t, s, <<>>, "ok", <<Traverse(t, path) # NoNode>>)

\* sorted(node.children): names in lexicographic order.
NameRank(name) == CASE name = "" -> 0 [] name = "a" -> 1 [] name = "b" -> 2
RECURSIVE Sorted(_)
Sorted(S) ==
    IF S = {} THEN <<>>
    ELSE LET least == CHOOSE n \in S : \A m \in S : NameRank(n) <= NameRank(m)
         IN  <<least>> \o Sorted(S \ {least})

\* node.watchers += ((handle, watch), ); watch = 0 stands for watch=None.
AddWatch(watchers, handle, watch) ==
    IF watch # 0 THEN watchers \o <<[h |-> handle, w |-> watch]>> ELSE watchers

\* ZooKeeper.get_children
ZkGetChildren(t, s, handle, path, watch) ==
    IF ~CheckHandle(s, handle) THEN Raise(t, s, "BadHandle")
    ELSE LET pos == Traverse(t, path)
         IN  IF pos = NoNode THEN Raise(t, s, "NoNode")
             ELSE Outcome([t EXCEPT ![pos].child_watchers = AddWatch(@, handle, watch)],
                          s, <<>>, "ok", <<Sorted(Children(t, pos))>>)

\* ZooKeeper.get
GetReturn(node) ==
    <<node.data, [ephemeralOwner |-> IF IsEphemeral(node.flags) THEN 1 ELSE 0]>>

ZkGet(t, s, handle, path, watch) ==
    IF ~CheckHandle(s, handle) THEN Raise(t, s, "BadHandle")
    ELSE LET pos == Traverse(t, path)
         IN  IF pos = NoNode THEN Raise(t, s, "NoNode")
             ELSE Outcome([t EXCEPT ![pos].watchers = AddWatch(@, handle, watch)],
                          s, <<>>, "ok", GetReturn(t[pos]))

\* ZooKeeper.set
ZkSet(t, s, handle, path, data) ==
    IF ~CheckHandle(s, handle) THEN Raise(t, s, "BadHandle")
    ELSE LET pos == Traverse(t, path)
         IN  IF pos = NoNode THEN Raise(t, s, "NoNode")
             ELSE LET t1 == [t EXCEPT ![pos].data = data]
                  IN  Outcome(ChangedTree(t1, pos), s,
                              ChangedCalls(t1, pos, CONNECTED_STATE, path),
                              "ok", <<>>)

\* ZooKeeper.get_acl
GetAclReturn(node) == <<[aversion |-> node.aversion], node.acl>>

ZkGetAcl(t, s, handle, path) ==
    IF ~CheckHandle(s, handle) THEN Raise(t, s, "BadHandle")
    ELSE LET pos == Traverse(t, path)
         IN  IF pos = NoNode THEN Raise(t, s, "NoNode")
             ELSE Outcome(t, s, <<>>, "ok", GetAclReturn(t[pos]))

\* Faulty variant: set_acl replaces the acl and leaves the version as it is.
SetAclNodeSameVersion(node, acl) == [node EXCEPT !.acl = acl]

\* ZooKeeper.set_acl
SetAclNode(node, acl) == [node EXCEPT !.aversion = @ + 1, !.acl = acl]

ZkSetAcl(t, s, handle, path, aversion, acl) ==
    IF ~CheckHandle(s, handle) THEN Raise(t, s, "BadHandle")
    ELSE LET pos == Traverse(t, path)
         IN  IF pos = NoNode THEN Raise(t, s, "NoNode")
             ELSE IF aversion # t[pos].aversion THEN Raise(t, s, "BadVersion")
             ELSE Outcome([t EXCEPT ![pos] = SetAclNode(@, acl)], s, <<>>, "ok", <<>>)

\* ------------------------------------------------------------ the machine
CountCalls(fired, w) == Cardinality({ i \in 1 .. Len(fired) : fired[i].w = w })

NoCall == [op |-> "none", h |-> 0, path |-> <<>>, args |-> <<>>, err |-> "ok",
           ret |-> <<>>, fired |-> <<>>, printed |-> <<>>]

\* A call starts only when no other call is between its completion and its
\* caller.
Idle == last = NoCall

\* self.lock = threading.RLock(), not held.
Threads == {"T1", "T2"}
NoThread == "none"
Unlocked == [owner |-> NoThread, count |-> 0]

\* The call op(h, path, args...) runs with outcome r and registers watch
\* (0: none) when it succeeds.
Apply(r, op, h, path, args, printed, watch) ==
    /\ tree' = r.tree
    /\ sessions' = r.sessions
    /\ nextw' = IF watch # 0 /\ r.err = "ok" THEN watch ELSE nextw
    /\ calls' = [w \in DOMAIN calls |-> calls[w] + CountCalls(r.fired, w)]
    /\ ncalls' = IF <<tree', sessions', nextw'>> # <<tree, sessions, nextw>>
                 THEN ncalls + 1 ELSE ncalls
    /\ ncalls' <= MaxCalls
    /\ last' = [op |-> op, h |-> h, path |-> path, args |-> args, err |-> r.err,
                ret |-> r.ret, fired |-> r.fired, printed |-> printed]
    /\ UNCHANGED <<lock, stack, issued>>

\* The caller takes the result (or the exception) of the completed call.
Return ==
    /\ last # NoCall
    /\ last' = NoCall
    /\ UNCHANGED <<tree, sessions, nextw, calls, ncalls, lock, stack, issued>>

\* ZooKeeper.__init__ with tree = Node(), as setUp builds it (line 67).
Init ==
    /\ tree = [pos \in {<<>>} |-> NewNode("")]
    /\ sessions = <<>>
    /\ nextw = 0
    /\ calls = [w \in 1 .. MaxWatches |-> 0]
    /\ ncalls = 0
    /\ last = NoCall
    /\ lock = Unlocked
    /\ stack = [t \in Threads |-> <<>>]
    /\ issued = 0

NodeCount(t) == Cardinality(DOMAIN t) - 1

\* A handle argument: a live handle, or the lowest handle that is not live
\* (never allocated, or closed: the session table keeps no trace of either).
Handles == DOMAIN sessions \cup {FreeHandle(sessions, 0)}

\* A watch argument: None, or a callback not registered before.
WatchArgs == {0} \cup (IF nextw < MaxWatches THEN {nextw + 1} ELSE {})

init ==
    /\ Idle
    /\ Cardinality(DOMAIN sessions) < MaxSessions
    /\ \E addr \in Addrs, watch \in BOOLEAN :
          /\ Apply(ZkInit(tree, sessions, addr, watch), "init",
                   FreeHandle(sessions, 0), <<>>, <<addr, watch>>,
                   IF AssertPrints(addr = connection_string)
                   THEN <<"assertion failed: ", addr>> ELSE <<>>, 0)

close ==
    /\ Idle
    /\ \E handle \in Handles :
       \E order \in (IF handle \in DOMAIN sessions THEN Perms(sessions[handle]) ELSE {<<>>}) :
          /\ Apply(ZkClose(tree, sessions, handle, order), "close", handle, <<>>,
                   <<order>>, <<>>, 0)

state ==
    /\ Idle
    /\ \E handle \in Handles :
       /\ Apply(ZkState(tree, sessions, handle), "state", handle, <<>>, <<>>, <<>>, 0)

create ==
    /\ Idle
    /\ \E handle \in Handles, path \in Paths, data \in CreateData, acl \in CreateAcls, flags \in FlagValues :
       LET r == ZkCreate(tree, sessions, handle, path, data, acl, flags)
       IN  /\ NodeCount(r.tree) <= MaxNodes
           /\ Apply(r, "create", handle, path, <<data, acl, flags>>, <<>>, 0)

delete ==
    /\ Idle
    /\ \E handle \in Handles, path \in Paths :
       /\ Apply(ZkDelete(tree, sessions, handle, path), "delete", handle, path, <<>>, <<>>, 0)

exists ==
    /\ Idle
    /\ \E handle \in Handles, path \in Paths :
       /\ Apply(ZkExists(tree, sessions, handle, path), "exists", handle, path, <<>>, <<>>, 0)

get_children ==
    /\ Idle
    /\ \E handle \in Handles, path \in Paths, watch \in WatchArgs :
       LET r == ZkGetChildren(tree, sessions, handle, path, watch)
       IN  Apply(r, "get_children", handle, path, <<watch>>, <<>>, watch)

get ==
    /\ Idle
    /\ \E handle \in Handles, path \in Paths, watch \in WatchArgs :
       LET r == ZkGet(tree, sessions, handle, path, watch)
       IN  Apply(r, "get", handle, path, <<watch>>, <<>>, watch)

set ==
    /\ Idle
    /\ \E handle \in Handles, path \in Paths, data \in SetData :
       /\ Apply(ZkSet(tree, sessions, handle, path, data), "set", handle, path, <<data>>, <<>>, 0)

get_acl ==
    /\ Idle
    /\ \E handle \in Handles, path \in Paths :
       /\ Apply(ZkGetAcl(tree, sessions, handle, path), "get_acl", handle, path, <<>>, <<>>, 0)

set_acl ==
    /\ Idle
    /\ \E handle \in Handles, path \in Paths, aversion \in 0 .. MaxAversion, acl \in SetAcls :
       LET r == ZkSetAcl(tree, sessions, handle, path, aversion, acl)
       IN  /\ r.err = "ok" => aversion < MaxAversion
           /\ Apply(r, "set_acl", handle, path, <<aversion, acl>>, <<>>, 0)

Next ==
    \/ init
    \/ close
    \/ state
    \/ create
    \/ delete
    \/ exists
    \/ get_children
    \/ get
    \/ set
    \/ get_acl
    \/ set_acl
    \/ Return

Spec == Init /\ [][Next]_vars

\* ------------------------------------------- the facade under its lock
\* The operations statement by statement. A thread's call stack holds one
\* frame per facade call in progress: a watch callback runs inside the call
\* that invokes it and may call the facade again, on the same thread.
LockPaths == { <<"", "">>, <<"", "a">> }      \* "/" and "/a"
LockWatches == {0, 1}                         \* watch=None, or callback 1

\* Faulty variant: a lock that is not reentrant (threading.Lock).
CanAcquireFree(l, t) == l.owner = NoThread

\* with self.lock: RLock.acquire blocks unless the lock is free or is held by
\* the calling thread itself.
CanAcquire(l, t) == l.owner \in {NoThread, t}
Acquired(l, t) == [owner |-> t, count |-> l.count + 1]

\* Faulty variant: leaving any with-block gives the lock up altogether.
ReleasedAtOnce(l) == Unlocked

\* Leaving the with-block: RLock.release frees the lock at count zero.
Released(l) == IF l.count = 1 THEN Unlocked ELSE [l EXCEPT !.count = @ - 1]

\* The arguments of a facade call by handle h with watch argument in W.
CallArgs(H, W) ==
    [op : {"exists", "delete"}, h : H, path : LockPaths, arg : {<<>>}]
    \cup [op : {"get", "get_children"}, h : H, path : LockPaths,
          arg : { <<w>> : w \in W }]
    \cup [op : {"set"}, h : H, path : LockPaths, arg : { <<d>> : d \in SetData }]
    \cup [op : {"create"}, h : H, path : { p \in LockPaths : Last(p) # "" },
          arg : { <<d, a, f>> : d \in CreateData, a \in CreateAcls, f \in FlagValues }]

\* A call that has not yet entered "with self.lock". pending: the watchers
\* a Node method is iterating over; event: the type and path it passes them;
\* node, bnode: the local variables of delete; cb: the callback invocation
\* that is running; fired: the invocations made so far; nested, returned:
\* the facade calls made from its callbacks and those that came back;
\* snap: tree and session table when the lock was taken.
Frame(c) ==
    [op |-> c.op, h |-> c.h, path |-> c.path, arg |-> c.arg, pc |-> "acquire",
     pending |-> <<>>, event |-> <<>>, node |-> <<>>, bnode |-> <<>>,
     cb |-> <<>>, fired |-> <<>>, nested |-> 0, returned |-> 0,
     err |-> "ok", ret |-> <<>>, snap |-> <<>>]

Top(t) == stack[t][Len(stack[t])]
SetTop(t, f) == [stack EXCEPT ![t][Len(stack[t])] = f]
At(t, pc) == stack[t] # <<>> /\ Top(t).pc = pc

\* The same call as one atomic step on tree t and session table s.
AtomicOutcome(f, t, s) ==
    CASE f.op = "exists" -> ZkExists(t, s, f.h, f.path)
      [] f.op = "get" -> ZkGet(t, s, f.h, f.path, f.arg[1])
      [] f.op = "get_children" -> ZkGetChildren(t, s, f.h, f.path, f.arg[1])
      [] f.op = "set" -> ZkSet(t, s, f.h, f.path, f.arg[1])
      [] f.op = "create" -> ZkCreate(t, s, f.h, f.path, f.arg[1], f.arg[2], f.arg[3])
      [] f.op = "delete" -> ZkDelete(t, s, f.h, f.path)

\* A thread that is not inside a call calls the facade.
LockCall(t) ==
    /\ stack[t] = <<>>
    /\ issued < MaxLockCalls
    /\ \E c \in CallArgs(DOMAIN sessions, LockWatches) :
          stack' = [stack EXCEPT ![t] = <<Frame(c)>>]
    /\ issued' = issued + 1
    /\ UNCHANGED <<tree, sessions, lock, nextw, calls, ncalls, last>>

\* with self.lock:
Acquire(t) ==
    /\ At(t, "acquire")
    /\ CanAcquire(lock, t)
    /\ lock' = Acquired(lock, t)
    /\ stack' = SetTop(t, [Top(t) EXCEPT !.pc = "body", !.snap = <<tree, sessions>>])
    /\ UNCHANGED <<tree, sessions, issued, nextw, calls, ncalls, last>>

\* The statements of the operation up to its first callback invocation.
\* _check_handle and _traverse take self.lock again, which the thread holds.
BodyRaise(f, err) == [f EXCEPT !.pc = "release", !.err = err]

BodySet(f) ==
    LET pos == Traverse(tree, f.path)
        t1 == [tree EXCEPT ![pos].data = f.arg[1]]
    IN  [tree |-> ChangedTree(t1, pos),
         frame |-> [f EXCEPT !.pc = "changed", !.pending = t1[pos].watchers,
                             !.event = <<CHANGED_EVENT, f.path>>]]

BodyCreate(f) ==
    LET base == Front(f.path)
        bpos == Traverse(tree, base)
        npos == bpos \o <<Last(f.path)>>
        t1 == [pos \in DOMAIN tree \cup {npos} |->
                  IF pos = npos THEN CreateNode(f.arg[1], f.arg[2], f.arg[3])
                  ELSE tree[pos]]
    IN  [tree |-> ChildrenChangedTree(t1, bpos),
         frame |-> [f EXCEPT !.pc = "children_changed",
                             !.pending = t1[bpos].child_watchers,
                             !.event = <<CHILD_EVENT, base>>]]

BodyDelete(f) ==
    LET pos == Traverse(tree, f.path)
        bpos == Traverse(tree, Front(f.path))
    IN  [tree |-> Unlink(tree, bpos \o <<Last(f.path)>>),
         frame |-> [f EXCEPT !.pc = "deleted", !.node = <<DeletedNode(tree[pos])>>,
                             !.bnode = <<bpos>>, !.pending = tree[pos].watchers,
                             !.event = <<DELETED_EVENT, f.path>>]]

Body(t) ==
    /\ At(t, "body")
    /\ CanAcquire(lock, t)
    /\ LET f == Top(t)
           r == AtomicOutcome(f, tree, sessions)
           b == IF r.err # "ok" THEN [tree |-> tree, frame |-> BodyRaise(f, r.err)]
                ELSE CASE f.op = "set" -> BodySet(f)
                       [] f.op = "create" -> BodyCreate(f)
                       [] f.op = "delete" -> BodyDelete(f)
                       [] OTHER -> [tree |-> r.tree,
                                    frame |-> [f EXCEPT !.pc = "release", !.ret = r.ret]]
       IN  /\ tree' = b.tree
           /\ stack' = SetTop(t, b.frame)
    /\ UNCHANGED <<sessions, lock, issued, nextw, calls, ncalls, last>>

\* for h, w in watchers: w(h, type, state, path)
Notify(t) ==
    /\ stack[t] # <<>>
    /\ Top(t).cb = <<>>
    /\ Top(t).pending # <<>>
    /\ LET f == Top(t)
           c == Call(Head(f.pending), f.event[1], CONNECTED_STATE, f.event[2])
       IN  stack' = SetTop(t, [f EXCEPT !.cb = <<c>>, !.pending = Tail(@),
                                        !.fired = Append(@, c)])
    /\ UNCHANGED <<tree, sessions, lock, issued, nextw, calls, ncalls, last>>

\* The running callback calls the facade, with the handle it was given.
NestedCall(t) ==
    /\ stack[t] # <<>>
    /\ Top(t).cb # <<>>
    /\ Len(stack[t]) <= MaxNesting
    /\ issued < MaxLockCalls
    /\ \E c \in CallArgs({Top(t).cb[1].h}, {0, Top(t).cb[1].w}) :
          stack' = [stack EXCEPT ![t] =
                       Front(@) \o <<[Top(t) EXCEPT !.nested = @ + 1], Frame(c)>>]
    /\ issued' = issued + 1
    /\ UNCHANGED <<tree, sessions, lock, nextw, calls, ncalls, last>>

\* The running callback returns.
CallbackReturn(t) ==
    /\ stack[t] # <<>>
    /\ Top(t).cb # <<>>
    /\ stack' = SetTop(t, [Top(t) EXCEPT !.cb = <<>>])
    /\ UNCHANGED <<tree, sessions, lock, issued, nextw, calls, ncalls, last>>

\* The loop over the watchers is over: the statements up to the next one.
Advance(t) ==
    /\ stack[t] # <<>>
    /\ Top(t).cb = <<>>
    /\ Top(t).pending = <<>>
    /\ LET f == Top(t) IN
       \/ /\ f.pc = "changed"
          /\ stack' = SetTop(t, [f EXCEPT !.pc = "release"])
          /\ UNCHANGED <<tree, sessions>>
       \/ /\ f.pc = "deleted"
          /\ stack' = SetTop(t, [f EXCEPT !.pc = "deleted_child",
                                          !.pending = f.node[1].child_watchers])
          /\ UNCHANGED <<tree, sessions>>
       \/ /\ f.pc = "deleted_child"
          /\ tree' = ChildrenChangedTree(tree, f.bnode[1])
          /\ stack' = SetTop(t, [f EXCEPT !.pc = "children_changed",
                                          !.pending = tree[f.bnode[1]].child_watchers,
                                          !.event = <<CHILD_EVENT, Front(f.path)>>])
          /\ UNCHANGED sessions
       \/ /\ f.pc = "children_changed"
          /\ f.op = "delete"
          /\ sessions' = DeleteForget(sessions, f.h, f.path)
          /\ stack' = SetTop(t, [f EXCEPT !.pc = "release"])
          /\ UNCHANGED tree
       \/ /\ f.pc = "children_changed"
          /\ f.op = "create"
          /\ sessions' = IF IsEphemeral(f.arg[3])
                         THEN [sessions EXCEPT ![f.h] = @ \cup {f.path}]
                         ELSE sessions
          /\ stack' = SetTop(t, [f EXCEPT !.pc = "release", !.ret = <<f.path>>])
          /\ UNCHANGED tree
    /\ UNCHANGED <<lock, issued, nextw, calls, ncalls, last>>

\* The with-block is left, by return or by an exception. A call made from a
\* callback gives its result to the callback; its exception is caught by the
\* callback or goes on through the loop of the calling operation.
Propagate(p, err) ==
    [p EXCEPT !.pc = "release", !.err = err, !.cb = <<>>, !.pending = <<>>]

Release(t) ==
    /\ At(t, "release")
    /\ lock' = Released(lock)
    /\ LET f == Top(t)
           rest == Front(stack[t])
       IN  IF rest = <<>> THEN stack' = [stack EXCEPT ![t] = <<>>]
           ELSE \E caught \in (IF f.err = "ok" THEN {TRUE} ELSE BOOLEAN) :
                   LET p == [rest[Len(rest)] EXCEPT !.returned = @ + 1]
                   IN  stack' = [stack EXCEPT ![t] =
                                    Front(rest) \o <<IF caught THEN p
                                                     ELSE Propagate(p, f.err)>>]
    /\ UNCHANGED <<tree, sessions, issued, nextw, calls, ncalls, last>>

\* What a thread inside a call can do next.
ThreadStep(t) ==
    \/ Acquire(t)
    \/ Body(t)
    \/ Notify(t)
    \/ NestedCall(t)
    \/ CallbackReturn(t)
    \/ Advance(t)
    \/ Release(t)

\* One session; "/a" exists, with a data watcher and a child watcher, and the
\* root has a child watcher, as these calls leave them.
LockStart(data, acl, flags) ==
    LET r0 == ZkInit([pos \in {<<>>} |-> NewNode("")], <<>>, connection_string, FALSE)
        r1 == ZkCreate(r0.tree, r0.sessions, 0, <<"", "a">>, data, acl, flags)
        r2 == ZkGet(r1.tree, r1.sessions, 0, <<"", "a">>, 1)
        r3 == ZkGetChildren(r2.tree, r2.sessions, 0, <<"", "a">>, 2)
    IN  ZkGetChildren(r3.tree, r3.sessions, 0, <<"", "">>, 2)

LockInit ==
    /\ \E data \in CreateData, acl \in CreateAcls, flags \in FlagValues :
          /\ tree = LockStart(data, acl, flags).tree
          /\ sessions = LockStart(data, acl, flags).sessions
    /\ nextw = 0
    /\ calls = [w \in 1 .. MaxWatches |-> 0]
    /\ ncalls = 0
    /\ last = NoCall
    /\ lock = Unlocked
    /\ stack = [t \in Threads |-> <<>>]
    /\ issued = 0

LockNext ==
    \E t \in Threads :
       \/ LockCall(t)
       \/ ThreadStep(t)

SpecLock == LockInit /\ [][LockNext]_vars

\* ------------------------------------------------------------ properties
\* The step is a facade call op (the completed call is last').
Called(op) == last = NoCall /\ last'.op = op

Live(h) == h \in DOMAIN sessions

\* A path whose final name is not empty names the node below its base.
NamesNode(path) == Last(path) # ""

\* Indices of the invocations of registration hw with a given event type.
Invocations(fired, hw, type) ==
    { i \in 1 .. Len(fired) : fired[i].h = hw.h /\ fired[i].w = hw.w /\ fired[i].type = type }

\* C1: one-shot law: a watch callback registered by get or get_children is
\* invoked at most once per registration.
C1_OneShot == \A w \in DOMAIN calls : calls[w] <= 1

\* C2: close(h) on a live session removes every path h created as ephemeral
\* (it no longer exists afterwards), invokes the watchers of each of those
\* nodes with the deleted event, and leaves every node created without the
\* ephemeral flag in the tree. Stated for paths that name a node.
C2_CloseRemovesEphemeralsOnly ==
    [][Called("close") /\ Live(last'.h) =>
        /\ \A pos \in DOMAIN tree :
              ~IsEphemeral(tree[pos].flags) => pos \in DOMAIN tree'
        /\ \A path \in sessions[last'.h] : NamesNode(path) =>
              /\ ~ZkExists(tree', sessions, last'.h, path).ret[1]
              /\ Traverse(tree, path) # NoNode =>
                    \A k \in 1 .. Len(tree[Traverse(tree, path)].watchers) :
                       Invocations(last'.fired, tree[Traverse(tree, path)].watchers[k],
                                   DELETED_EVENT) # {}
    ]_vars

\* C3: a successful delete invokes every data watcher and every child watcher
\* registered on the deleted node with the deleted event and the path, and
\* all of these before any children-changed invocation it makes.
DeletedPos(t, path) == Traverse(t, Front(path)) \o <<Last(path)>>

NotifiedDeleted(fired, hw, path) ==
    \E i \in Invocations(fired, hw, DELETED_EVENT) :
       /\ fired[i].path = path
       /\ \A j \in 1 .. Len(fired) : fired[j].type = CHILD_EVENT => i < j

C3_DeletedBeforeChildrenChanged ==
    [][Called("delete") /\ last'.err = "ok" =>
        LET node == tree[DeletedPos(tree, last'.path)]
        IN  /\ \A k \in 1 .. Len(node.watchers) :
                  NotifiedDeleted(last'.fired, node.watchers[k], last'.path)
            /\ \A k \in 1 .. Len(node.child_watchers) :
                  NotifiedDeleted(last'.fired, node.child_watchers[k], last'.path)
    ]_vars

\* A delete has invoked a child watcher of the deleted node with the deleted
\* event and then a child watcher of the parent with the child event.
C3_Witness ==
    /\ last.op = "delete" /\ last.err = "ok" /\ NamesNode(last.path)
    /\ Len(last.fired) = 2
    /\ last.fired[1].type = DELETED_EVENT /\ last.fired[1].path = last.path
    /\ last.fired[2].type = CHILD_EVENT /\ last.fired[2].path = Front(last.path)
    /\ calls[last.fired[1].w] = 1

\* C4: set_acl on an existing node with a version other than the node's
\* aversion fails with BadVersion and changes nothing; with the node's
\* aversion it succeeds, the aversion becomes v + 1 and get_acl returns the
\* new acl. No call ever decreases the aversion of a node.
C4_SetAclVersioned ==
    [][/\ Called("set_acl") /\ Live(last'.h) /\ Traverse(tree, last'.path) # NoNode =>
            LET pos == Traverse(tree, last'.path)
                v == last'.args[1]
                acl == last'.args[2]
            IN  IF v # tree[pos].aversion
                THEN /\ last'.err = "BadVersion"
                     /\ tree' = tree /\ sessions' = sessions
                ELSE /\ last'.err = "ok"
                     /\ tree'[pos].aversion = v + 1
                     /\ ZkGetAcl(tree', sessions', last'.h, last'.path).ret
                           = <<[aversion |-> v + 1], acl>>
       /\ \A pos \in DOMAIN tree \cap DOMAIN tree' :
             tree'[pos].aversion >= tree[pos].aversion
    ]_vars

\* A set_acl with the version 0 observed earlier has failed after another
\* set_acl with that version succeeded.
C4_Witness ==
    /\ last.op = "set_acl" /\ last.err = "BadVersion" /\ last.args[1] = 0
    /\ tree[Traverse(tree, last.path)].aversion = 1
    /\ tree[Traverse(tree, last.path)].acl \in SetAcls

\* C5: create of a name that is already a child of the parent fails with
\* NodeExists (on a live handle), changes neither the tree nor any session's
\* ephemeral set nor a registration, and invokes no callback.
C5_CreateExisting ==
    [][/\ Called("create")
       /\ Traverse(tree, Front(last'.path)) # NoNode
       /\ Last(last'.path) \in Children(tree, Traverse(tree, Front(last'.path)))
       => /\ last'.err # "ok"
          /\ Live(last'.h) => last'.err = "NodeExists"
          /\ tree' = tree /\ sessions' = sessions /\ nextw' = nextw
          /\ last'.fired = <<>> /\ calls' = calls
    ]_vars

\* A create on a live handle has failed with NodeExists on a node that has a
\* pending child watcher on its parent.
C5_Witness ==
    /\ last.op = "create" /\ last.err = "NodeExists" /\ NamesNode(last.path)
    /\ tree[Traverse(tree, Front(last.path))].child_watchers # <<>>

\* C6: no partial failure: a call that fails leaves the tree, the session
\* table and the registrations as they were and has invoked no callback.
C6_NoPartialFailure ==
    [][last = NoCall /\ last' # NoCall /\ last'.err # "ok" =>
          /\ tree' = tree /\ sessions' = sessions /\ nextw' = nextw
          /\ last'.fired = <<>>
    ]_vars

\* C7: after a successful create(h, path, data, acl, flags), get(h, path)
\* returns data, and ephemeralOwner is non-zero exactly when the ephemeral
\* flag was passed.
C7_CreateGetRoundTrip ==
    [][Called("create") /\ last'.err = "ok" =>
          LET r == ZkGet(tree', sessions', last'.h, last'.path, 0)
          IN  /\ r.err = "ok"
              /\ r.ret[1] = last'.args[1]
              /\ (r.ret[2].ephemeralOwner # 0) <=> IsEphemeral(last'.args[3])
    ]_vars

\* C8: after a successful create(h, path, data, acl), get_acl(h, path)
\* returns version 0 and exactly that acl. Stated for paths that name a node.
C8_CreateStoresAcl ==
    [][Called("create") /\ last'.err = "ok" /\ NamesNode(last'.path) =>
          ZkGetAcl(tree', sessions', last'.h, last'.path).ret
             = <<[aversion |-> 0], last'.args[2]>>
    ]_vars

\* C9: init registers the lowest non-negative integer that is not the handle
\* of a live session, as a new session beside the live ones, which it leaves
\* as they are.
C9_LowestFreeHandle ==
    [][Called("init") =>
          /\ DOMAIN sessions \subseteq DOMAIN sessions'
          /\ \E h \in DOMAIN sessions' \ DOMAIN sessions :
                /\ DOMAIN sessions' = DOMAIN sessions \cup {h}
                /\ \A k \in 0 .. h - 1 : k \in DOMAIN sessions
                /\ sessions'[h] = {}
          /\ \A h \in DOMAIN sessions : sessions'[h] = sessions[h]
    ]_vars

\* An init has allocated handle 0 again, after its session was closed, while
\* the session with handle 1 is live.
C9_Witness ==
    /\ last.op = "init" /\ last.h = 0
    /\ DOMAIN sessions = {0, 1}

\* C10: the value init returns is the handle it registered.
C10_InitReturnsHandle ==
    last.op = "init" => last.ret = <<last.h>>

\* C11: init with an address other than the connection string fails: it
\* registers no session and delivers no session event.
C11_InitAddressMismatchFails ==
    [][Called("init") /\ last'.args[1] # connection_string =>
          /\ last'.err # "ok"
          /\ sessions' = sessions
          /\ last'.fired = <<>>
    ]_vars

\* C12: every call other than init on a handle that is not live fails with
\* the invalid-handle error, whether or not its path exists, changes neither
\* the tree nor the session table nor a registration, and invokes nothing.
C12_DeadHandleFails ==
    [][last = NoCall /\ last' # NoCall /\ last'.op # "init" /\ ~Live(last'.h) =>
          /\ last'.err = "BadHandle"
          /\ tree' = tree /\ sessions' = sessions /\ nextw' = nextw
          /\ last'.fired = <<>> /\ last'.ret = <<>>
    ]_vars

\* A second close of handle 0 has failed: the handle was allocated and closed
\* before, and no session is live.
C12_Witness ==
    /\ last.op = "close" /\ last.h = 0 /\ last.err = "BadHandle"
    /\ DOMAIN sessions = {}
    /\ ncalls >= 2

\* C13: close(h) on a live handle succeeds, and afterwards h is not live.
C13_CloseLiveSucceeds ==
    [][Called("close") /\ Live(last'.h) =>
          /\ last'.err = "ok"
          /\ last'.h \notin DOMAIN sessions'
    ]_vars

\* C14: after a successful close(h) no node of the tree holds a data watcher
\* or a child watcher registered under h; every callback a call invokes was
\* registered on a node of the tree under the handle it is invoked with, and
\* every registration in the tree is under a live handle: a registration of
\* a closed session is never invoked after the close.
RegisteredAt(t, pos) == Range(t[pos].watchers) \cup Range(t[pos].child_watchers)

Registered(t) == UNION { RegisteredAt(t, pos) : pos \in DOMAIN t }

C14_CloseStripsWatchers ==
    [][last = NoCall /\ last' # NoCall =>
          /\ last'.op = "close" /\ last'.err = "ok" =>
                \A hw \in Registered(tree') : hw.h # last'.h
          /\ \A i \in 1 .. Len(last'.fired) :
                last'.fired[i].w # 0 =>
                   [h |-> last'.fired[i].h, w |-> last'.fired[i].w] \in Registered(tree)
          /\ \A hw \in Registered(tree') : hw.h \in DOMAIN sessions'
    ]_vars

\* Handle 0 has been allocated again after its first session registered a
\* callback and was closed: the callback is registered nowhere and was never
\* invoked.
C14_Witness ==
    /\ last.op = "init" /\ last.h = 0 /\ DOMAIN sessions = {0}
    /\ nextw = 1 /\ calls[1] = 0
    /\ Registered(tree) = {}
    /\ ncalls = 4

\* C18: set on an existing node replaces that node's data, invokes exactly
\* its data watchers, each with (its handle, changed, connected, path), and
\* drains them; child watchers, children, flags, acl and aversion of the
\* node, every other node and every ephemeral set stay as they are.
C18_SetFrame ==
    [][Called("set") /\ Live(last'.h) /\ Traverse(tree, last'.path) # NoNode =>
          LET pos == Traverse(tree, last'.path)
              ws == tree[pos].watchers
          IN  /\ last'.err = "ok"
              /\ tree' = [tree EXCEPT ![pos].data = last'.args[1],
                                      ![pos].watchers = <<>>]
              /\ sessions' = sessions
              /\ last'.fired =
                    [i \in 1 .. Len(ws) |->
                        [h |-> ws[i].h, w |-> ws[i].w, type |-> CHANGED_EVENT,
                         state |-> CONNECTED_STATE, path |-> last'.path]]
    ]_vars

\* A set has invoked a data watcher of a node that also holds a child
\* watcher, which stays registered.
C18_Witness ==
    /\ last.op = "set" /\ last.err = "ok" /\ Len(last.fired) = 1
    /\ tree[Traverse(tree, last.path)].child_watchers # <<>>
    /\ tree[Traverse(tree, last.path)].data \in SetData

\* C19: every path in a live session's ephemeral set resolves to a node of
\* the tree that carries the ephemeral flag. Stated for paths that name a
\* node.
C19_EphemeralPathsExist ==
    \A h \in DOMAIN sessions : \A path \in sessions[h] :
       NamesNode(path) =>
          /\ Traverse(tree, path) # NoNode
          /\ IsEphemeral(tree[Traverse(tree, path)].flags)

\* C20: when a call makes a node leave the tree, every data watcher and
\* every child watcher registered on that node is invoked exactly once with
\* the deleted event.
C20_NoLostNotification ==
    [][last = NoCall /\ last' # NoCall =>
          \A pos \in DOMAIN tree \ DOMAIN tree' :
             \A hw \in RegisteredAt(tree, pos) :
                Cardinality(Invocations(last'.fired, hw, DELETED_EVENT)) = 1
    ]_vars

\* --------------------------------------------- properties of SpecLock
Frames(t) == { stack[t][i] : i \in 1 .. Len(stack[t]) }

\* The thread is inside "with self.lock" in one of its calls.
Inside(t) == \E f \in Frames(t) : f.pc # "acquire"

\* A deleted callback of the frame is being invoked.
InDeletedCallback(f) == f.cb # <<>> /\ f.cb[1].type = DELETED_EVENT

\* C15 as the specification states it: a facade call made by a watch
\* callback during its own invocation never acquires the lock and never
\* completes (it stays at "with self.lock" for ever).
C15_NestedCallDeadlocks ==
    \A t \in Threads : \A i \in 2 .. Len(stack[t]) : stack[t][i].pc = "acquire"

\* C15, amended: watch callbacks are invoked while the calling thread holds
\* the service lock, and the lock is reentrant: the thread that holds it is
\* never blocked, so a facade call made by a callback during its own
\* invocation acquires the lock again and goes on; only the calls of other
\* threads wait.
C15_ReentrantLock ==
    \A t \in Threads :
       /\ (\E f \in Frames(t) : f.cb # <<>>) => lock.owner = t /\ lock.count >= 1
       /\ (stack[t] # <<>> /\ lock.owner = t) => ENABLED ThreadStep(t)
       /\ (At(t, "acquire") /\ lock.owner \notin {NoThread, t}) => ~ENABLED ThreadStep(t)

\* A call made by a running callback has run to its end holding the lock
\* twice, while another thread waits for the lock.
C15_Witness ==
    \E t \in Threads, u \in Threads :
       /\ Len(stack[t]) = 2
       /\ stack[t][1].cb # <<>>
       /\ stack[t][2].pc = "release"
       /\ stack[t][2].err = "ok"
       /\ lock = [owner |-> t, count |-> 2]
       /\ u # t
       /\ At(u, "acquire")

\* C16: operations of different threads are mutually exclusive for their
\* whole duration, callbacks included: while a thread is inside an operation
\* it owns the lock and every other thread is still before its "with
\* self.lock", having read and written nothing; and an operation whose
\* callbacks call nothing leaves, when it ends, exactly the tree, session
\* table, invocations and result that the operation has as one atomic step
\* from the state in which it took the lock.
C16_MutualExclusion ==
    /\ \A t \in Threads : Inside(t) => lock.owner = t
    /\ \A t \in Threads, u \in Threads : (t # u /\ Inside(t)) => ~Inside(u)
    /\ lock.owner = NoThread => \A t \in Threads : ~Inside(t)
    /\ \A t \in Threads : \A f \in Frames(t) :
          (f.pc = "release" /\ f.nested = 0) =>
             LET r == AtomicOutcome(f, f.snap[1], f.snap[2])
             IN  /\ tree = r.tree
                 /\ sessions = r.sessions
                 /\ f.fired = r.fired
                 /\ f.err = r.err
                 /\ f.ret = r.ret

\* A thread is between the unlinking of a node and the delivery of its
\* events, inside a deleted callback, while the other thread has called an
\* operation on the same path and waits for the lock.
C16_Witness ==
    \E t \in Threads, u \in Threads :
       /\ Len(stack[t]) = 1
       /\ stack[t][1].op = "delete"
       /\ stack[t][1].pc = "deleted"
       /\ InDeletedCallback(stack[t][1])
       /\ Traverse(tree, stack[t][1].path) = NoNode
       /\ u # t
       /\ At(u, "acquire")
       /\ Top(u).op = "exists"
       /\ Top(u).path = stack[t][1].path

====
